---- MODULE Spec2Model ----
(***************************************************************************)
(* A model of gitdb's two stateful components:                             *)
(*   - LockedFD (gitdb/util.py): the lock-file protected read/write        *)
(*     transaction on one path, several instances racing on it;            *)
(*   - PackedDB (gitdb/db/pack.py): the registry of pack entities, its     *)
(*     refresh against the pack directory and the digest lookups.          *)
(* The file system is modelled at the level of the system calls the code   *)
(* makes: a path names an inode, a descriptor refers to an inode.          *)
(***************************************************************************)
EXTENDS Integers, Sequences, FiniteSets, TLC

\* ------------------------------------------------------------------------
\* Bounds of the model
\* ------------------------------------------------------------------------

\* number of LockedFD instances created on the one path
NumTx == 2
\* longest content written through one descriptor
MaxLen == 1

\* ------------------------------------------------------------------------
\* LockedFD: values
\* ------------------------------------------------------------------------

\* An optional value is a sequence of at most one element.
\* Python's None: an unset attribute, a closed descriptor
None == <<>>
\* a path that names no file
NoFile == <<>>
\* the value x where None is possible too
Some(x) == <<x>>
\* the value of an optional that is not None
Val(o) == o[1]

\* int("600", 8): the mode the lock file is created with
LockMode == 384
\* int("644", 8): the mode commit leaves the target with
FileMode == 420

\* the LockedFD instances
Tx == 1..NumTx
\* inode 0 is the target file that exists before any transaction; inode t is
\* the file that transaction t creates with os.open(lockfile, O_CREAT|O_EXCL)
Inodes == 0..NumTx
\* the byte value the caller of instance t writes: one of its own, so that a
\* content tells which instance wrote it
ByteOf(t) == t
\* the content of the target that exists before any transaction
InitData == <<0>>

VARIABLES
    is_win,     \* the platform: os.name == 'nt'
    target,     \* Some(the inode <filepath> names), or NoFile
    lock,       \* Some(the inode <filepath>.lock names), or NoFile
    data,       \* inode -> the bytes of the file
    mode,       \* inode -> permission bits
    _fd,        \* instance -> self._fd: Some(the inode the descriptor refers to), or None
    _write,     \* instance -> self._write: None, Some(TRUE) or Some(FALSE)
    pc,         \* instance -> the system call the running method makes next
    res,        \* instance -> the last method called on it and how it ended
    gone,       \* instance -> the caller dropped it (__del__ has been entered)
    written,    \* instance -> the bytes the caller wrote through its descriptor
    atOpen      \* instance -> the target's content when open was entered

lockVars == <<is_win, target, lock, data, mode, _fd, _write, pc, res, gone, written, atOpen>>

\* what an observer of a path reads: Some(the whole content), or NoFile
Content(path) == IF path = NoFile THEN NoFile ELSE Some(data[Val(path)])

\* ------------------------------------------------------------------------
\* LockedFD: the operations, one action per system call
\* ------------------------------------------------------------------------

\* method call ended with out: "ok", the exception raised, or "running" while
\* the method is between two of its system calls
Outcome(call, out) == [call |-> call, out |-> out]

\* self._fd, self._write as __init__ leaves them
LockedFDInit ==
    /\ _fd = [t \in Tx |-> None]
    /\ _write = [t \in Tx |-> None]
    /\ pc = [t \in Tx |-> "idle"]
    /\ res = [t \in Tx |-> Outcome("none", "none")]
    /\ gone = [t \in Tx |-> FALSE]
    /\ written = [t \in Tx |-> <<>>]
    /\ atOpen = [t \in Tx |-> NoFile]

\* the disk before any transaction: no lock file; the target absent or present
DiskInit ==
    /\ is_win \in BOOLEAN
    /\ target \in {NoFile, Some(0)}
    /\ lock = NoFile
    /\ data = [i \in Inodes |-> IF i = 0 /\ target # NoFile THEN InitData ELSE <<>>]
    /\ mode = [i \in Inodes |-> IF i = 0 /\ target # NoFile THEN FileMode ELSE LockMode]

\* the file system frees an inode that no path names and no descriptor
\* refers to: f (the data or the modes) with the freed inodes blank
Reap(f, blank, tg, lk, fds) ==
    [i \in Inodes |->
        IF Some(i) = tg \/ Some(i) = lk \/ \E t \in Tx : fds[t] = Some(i)
        THEN f[i] ELSE blank]

\* the files stay as they are
FilesUnchanged == UNCHANGED <<target, lock, data, mode>>

\* the files after a step that drops a path or a descriptor
FilesReaped(mode1) ==
    /\ data' = Reap(data, <<>>, target', lock', _fd')
    /\ mode' = Reap(mode1, LockMode, target', lock', _fd')

\* the transaction of instance t is over: what is remembered of it is dropped
Forget(t) ==
    /\ written' = [written EXCEPT ![t] = <<>>]
    /\ atOpen' = [atOpen EXCEPT ![t] = NoFile]

\* an open that takes the descriptor, not the mode, as the sign of a first call
OpenedBeforeByFd(t) == _fd[t] # None
\* open: "if self._write is not None: raise AssertionError"
OpenedBefore(t) == _write[t] # None

\* an exclusive create that fails only over the lock file of a writer
ExclCreateFailsOnWriter ==
    lock # NoFile /\ \E t \in Tx : lock = Some(t) /\ _write[t] = Some(TRUE)
\* an exclusive create that succeeds over an existing file
ExclCreateNeverFails == FALSE
\* os.open(lockfile, O_WRONLY | O_CREAT | O_EXCL) raises iff the file exists
ExclCreateFails == lock # NoFile

\* open(write): the call up to and including the creation of the lock file
Open(t, w) ==
    /\ pc[t] = "idle" /\ ~gone[t]
    /\ UNCHANGED <<is_win, target, gone, written>>
    /\ IF OpenedBefore(t)
       THEN /\ res' = [res EXCEPT ![t] = Outcome("open", "AssertionError")]
            /\ UNCHANGED <<lock, data, mode, _fd, _write, pc, atOpen>>
       ELSE /\ _write' = [_write EXCEPT ![t] = Some(w)]
            /\ IF ExclCreateFails
               THEN /\ res' = [res EXCEPT ![t] = Outcome("open", "IOError")]
                    /\ UNCHANGED <<lock, data, mode, _fd, pc, atOpen>>
               ELSE /\ lock' = Some(t)
                    /\ data' = [data EXCEPT ![t] = <<>>]
                    /\ mode' = [mode EXCEPT ![t] = LockMode]
                    /\ atOpen' = [atOpen EXCEPT ![t] = Content(target)]
                    /\ IF w
                       THEN /\ _fd' = [_fd EXCEPT ![t] = Some(t)]
                            /\ res' = [res EXCEPT ![t] = Outcome("open", "ok")]
                            /\ UNCHANGED pc
                       ELSE \* os.close(fd); the target is opened next
                            /\ pc' = [pc EXCEPT ![t] = "open_target"]
                            /\ res' = [res EXCEPT ![t] = Outcome("open", "running")]
                            /\ UNCHANGED _fd

\* open(write=False): os.open(self._filepath, O_RDONLY); it fails when the
\* target is absent, and may fail when it is present (not accessible)
OpenTarget(t) ==
    /\ pc[t] = "open_target"
    /\ UNCHANGED <<is_win, _write, gone, written, atOpen>>
    /\ FilesUnchanged
    /\ \E fails \in BOOLEAN :
        /\ target = NoFile => fails
        /\ IF fails
           THEN /\ pc' = [pc EXCEPT ![t] = "open_unlock"]
                /\ UNCHANGED <<_fd, res>>
           ELSE /\ _fd' = [_fd EXCEPT ![t] = target]
                /\ pc' = [pc EXCEPT ![t] = "idle"]
                /\ res' = [res EXCEPT ![t] = Outcome("open", "ok")]

\* an open that re-raises without removing the lock file
OpenKeepsLock(t) ==
    /\ pc[t] = "open_unlock"
    /\ pc' = [pc EXCEPT ![t] = "idle"]
    /\ res' = [res EXCEPT ![t] = Outcome("open", "OSError")]
    /\ UNCHANGED <<is_win, target, lock, data, mode, _fd, _write, gone>>
    /\ Forget(t)
\* open(write=False), the except branch: os.remove(lockfile), then re-raise
OpenUnlock(t) ==
    /\ pc[t] = "open_unlock"
    /\ lock' = NoFile
    /\ pc' = [pc EXCEPT ![t] = "idle"]
    /\ res' = [res EXCEPT ![t] = Outcome("open", "OSError")]
    /\ UNCHANGED <<is_win, target, _fd, _write, gone>>
    /\ FilesReaped(mode)
    /\ Forget(t)

\* a write that goes to the file the target path names
WriteTarget(t, b) ==
    /\ pc[t] = "idle" /\ ~gone[t]
    /\ _write[t] = Some(TRUE) /\ _fd[t] # None /\ target # NoFile
    /\ Len(written[t]) < MaxLen
    /\ data' = [data EXCEPT ![Val(target)] = Append(@, b)]
    /\ written' = [written EXCEPT ![t] = Append(@, b)]
    /\ UNCHANGED <<is_win, target, lock, mode, _fd, _write, pc, res, gone, atOpen>>
\* the caller writes one byte to the descriptor open returned in write mode
WriteFd(t, b) ==
    /\ pc[t] = "idle" /\ ~gone[t]
    /\ _write[t] = Some(TRUE) /\ _fd[t] # None
    /\ Len(written[t]) < MaxLen
    /\ data' = [data EXCEPT ![Val(_fd[t])] = Append(@, b)]
    /\ written' = [written EXCEPT ![t] = Append(@, b)]
    /\ UNCHANGED <<is_win, target, lock, mode, _fd, _write, pc, res, gone, atOpen>>

\* an _end_writing that renames whatever the mode and the outcome
RenamesAlways(t, successful) == TRUE
\* an _end_writing that takes the outcome the wrong way round
RenamesInverted(t, successful) == Val(_write[t]) /\ ~successful
\* _end_writing: whether the lock file is renamed onto the target
Renames(t, successful) == Val(_write[t]) /\ successful

\* an _end_writing that returns early only in read mode
ClosedReader(t) == _fd[t] = None /\ _write[t] = Some(FALSE)
\* an _end_writing that goes on although the descriptor is closed
NeverClosed(t) == FALSE
\* _end_writing: "if self._fd is None: return"
AlreadyClosed(t) == _fd[t] = None

\* _end_writing(successful), up to os.close(self._fd): the checks, the close,
\* and the choice of what is done with the lock file
EndWriting(t, call, successful) ==
    /\ UNCHANGED <<is_win, target, lock, _write, written, atOpen>>
    /\ IF _write[t] = None
       THEN /\ res' = [res EXCEPT ![t] = Outcome(call, "AssertionError")]
            /\ UNCHANGED <<_fd, pc>>
            /\ FilesUnchanged
       ELSE IF AlreadyClosed(t)
       THEN /\ res' = [res EXCEPT ![t] = Outcome(call, "ok")]
            /\ UNCHANGED <<_fd, pc>>
            /\ FilesUnchanged
       ELSE /\ _fd' = [_fd EXCEPT ![t] = None]
            /\ res' = [res EXCEPT ![t] = Outcome(call, "running")]
            /\ pc' = [pc EXCEPT ![t] =
                 IF Renames(t, successful)
                 THEN IF is_win /\ target # NoFile
                      THEN "end_remove_dst" ELSE "end_rename"
                 ELSE "end_unlock"]
            /\ FilesReaped(mode)

\* commit()
Commit(t) ==
    /\ pc[t] = "idle" /\ ~gone[t]
    /\ EndWriting(t, "commit", TRUE)
    /\ UNCHANGED gone

\* rollback()
Rollback(t) ==
    /\ pc[t] = "idle" /\ ~gone[t]
    /\ EndWriting(t, "rollback", FALSE)
    /\ UNCHANGED gone

\* _end_writing returns ("ok"), or raises out, to its caller
Return(t, out) ==
    /\ pc' = [pc EXCEPT ![t] = "idle"]
    /\ res' = [res EXCEPT ![t].out = out]
    /\ Forget(t)

\* _end_writing, windows only: os.remove(self._filepath)
EndRemoveDst(t) ==
    /\ pc[t] = "end_remove_dst"
    /\ UNCHANGED <<is_win, lock, _fd, _write, gone>>
    /\ IF target = NoFile
       THEN Return(t, "OSError") /\ FilesUnchanged
       ELSE /\ target' = NoFile
            /\ pc' = [pc EXCEPT ![t] = "end_rename"]
            /\ FilesReaped(mode)
            /\ UNCHANGED <<res, written, atOpen>>

\* _end_writing: os.rename(lockfile, self._filepath); on windows it raises
\* when the destination exists
EndRename(t) ==
    /\ pc[t] = "end_rename"
    /\ UNCHANGED <<is_win, _fd, _write, gone>>
    /\ IF lock = NoFile \/ (is_win /\ target # NoFile)
       THEN Return(t, "OSError") /\ FilesUnchanged
       ELSE /\ target' = lock
            /\ lock' = NoFile
            /\ pc' = [pc EXCEPT ![t] = "end_chmod"]
            /\ FilesReaped(mode)
            /\ UNCHANGED <<res, written, atOpen>>

\* _end_writing: chmod(self._filepath, 0644)
EndChmod(t) ==
    /\ pc[t] = "end_chmod"
    /\ UNCHANGED <<is_win, target, lock, data, _fd, _write, gone>>
    /\ IF target = NoFile
       THEN Return(t, "OSError") /\ UNCHANGED mode
       ELSE /\ mode' = [mode EXCEPT ![Val(target)] = FileMode]
            /\ Return(t, "ok")

\* _end_writing: os.remove(lockfile)
EndUnlock(t) ==
    /\ pc[t] = "end_unlock"
    /\ UNCHANGED <<is_win, target, _fd, _write, gone>>
    /\ IF lock = NoFile
       THEN Return(t, "OSError") /\ FilesUnchanged
       ELSE /\ lock' = NoFile
            /\ FilesReaped(mode)
            /\ Return(t, "ok")

\* a __del__ that leaves an open instance as it is
DelNoRollback(t) ==
    /\ pc[t] = "idle" /\ ~gone[t]
    /\ gone' = [gone EXCEPT ![t] = TRUE]
    /\ res' = [res EXCEPT ![t] = Outcome("__del__", "ok")]
    /\ UNCHANGED <<is_win, target, lock, data, mode, _fd, _write, pc, written, atOpen>>

\* __del__: the caller drops the instance; one whose descriptor is open is
\* rolled back
Del(t) ==
    /\ pc[t] = "idle" /\ ~gone[t]
    /\ gone' = [gone EXCEPT ![t] = TRUE]
    /\ IF _fd[t] # None
       THEN EndWriting(t, "__del__", FALSE)
       ELSE /\ res' = [res EXCEPT ![t] = Outcome("__del__", "ok")]
            /\ UNCHANGED <<is_win, target, lock, data, mode, _fd, _write, pc, written, atOpen>>

\* ------------------------------------------------------------------------
\* PackedDB: values
\* ------------------------------------------------------------------------

\* number of pack files that can appear in the root directory
NumPacks == 2
\* queries answered with a hit before the model stops counting (_hit_count)
MaxHits == 3
\* latest modification time of the root directory
MaxTime == 2
\* _sort_interval, scaled down from 500 so that the periodic re-sort happens
SortInterval == 2

\* the pack files pack-<p>.pack
Packs == 1..NumPacks
\* a hex digit
Nibbles == {0, 1}
\* A binary sha is a sequence of hex digits, two per byte, here of two bytes.
\* PackIndexFile of pack p: its shas in the index's (sorted) order.  Pack 1
\* holds two shas that begin alike, packs 1 and 2 share a sha, and each holds
\* a sha of its own beginning with 1.
PackIndex(p) ==
    CASE p = 1 -> << <<0,0,0,0>>, <<0,1,0,0>>, <<1,0,0,0>> >>
      [] p = 2 -> << <<0,1,0,0>>, <<1,0,0,1>> >>
      [] OTHER -> << <<1,1,0,0>> >>
\* the shas looked up: those of the packs, and one that no pack holds
Digests ==
    UNION {{PackIndex(p)[i] : i \in DOMAIN PackIndex(p)} : p \in Packs}
        \cup {<<1,1,1,1>>}
\* PackFile.size() of pack p: what seeds the entity's hit counter
PackSize(p) == IF p = 1 THEN 1 ELSE 2

\* index.size()
IndexSize(p) == Len(PackIndex(p))
\* index.sha(slot)
IndexSha(p, slot) == PackIndex(p)[slot]
\* index.sha_to_index(sha): Some(the slot of sha), or None
sha_to_index(p, sha) ==
    IF \E i \in 1..IndexSize(p) : IndexSha(p, i) = sha
    THEN Some(CHOOSE i \in 1..IndexSize(p) : IndexSha(p, i) = sha)
    ELSE None
\* whether the first canonical_length hex digits of sha are those of the
\* partial binary sha
PrefixMatches(partial_binsha, canonical_length, sha) ==
    \A i \in 1..canonical_length : sha[i] = partial_binsha[i]
\* the slots index.partial_sha_to_index(partial_binsha, canonical_length) may
\* return: those of the shas with that prefix
PartialSlots(p, partial_binsha, canonical_length) ==
    {i \in 1..IndexSize(p) :
        PrefixMatches(partial_binsha, canonical_length, IndexSha(p, i))}
\* the partial shas a caller passes: fewer bytes than a sha has, and the
\* number of hex digits meant, the unused last digit of an odd number being 0
PartialInputs ==
    {<<b, n>> \in [1..2 -> Nibbles] \X (1..2) :
        /\ n \in {Len(b) - 1, Len(b)}
        /\ n = Len(b) - 1 => b[Len(b)] = 0}

VARIABLES
    disk,       \* the pack files present in the root directory
    dirMtime,   \* st_mtime of the root directory
    loaded,     \* whether the lazy attribute _entities has been set
    _entities,  \* self._entities: sequence of items [hits, entity]
    _hit_count, \* self._hit_count
    _st_mtime,  \* self._st_mtime
    ret         \* what the last call returned or raised

packVars == <<disk, dirMtime, loaded, _entities, _hit_count, _st_mtime, ret>>

\* what an observer of the calls on the database keeps count of
VARIABLES
    queries,    \* the resolutions (_pack_info calls) made so far, modulo SortInterval
    refreshes,  \* the update_cache calls made so far, modulo 2
    touched     \* the root directory changed since the last update_cache call

obsVars == <<queries, refreshes, touched>>

\* the result of a call: op(arg) returned val (an optional), or raised err
Result(op, arg, val, err) == [op |-> op, arg |-> arg, val |-> val, err |-> err]

\* the state __init__ leaves, over a root directory holding any pack files
PackedDBInit ==
    /\ disk \in SUBSET Packs
    /\ dirMtime = 1
    /\ loaded = FALSE
    /\ _entities = <<>>
    /\ _hit_count = 0
    /\ _st_mtime = 0
    /\ ret = Result("init", None, None, "")

\* the pack files of the items of a registry
EntitySet(ents) == {ents[i].entity : i \in DOMAIN ents}

\* item x put into a list sorted by hits, descending, behind the items that
\* have at least its hits
RECURSIVE InsertByHits(_, _)
InsertByHits(x, sorted) ==
    IF sorted = <<>> THEN <<x>>
    ELSE IF Head(sorted).hits >= x.hits
         THEN <<Head(sorted)>> \o InsertByHits(x, Tail(sorted))
         ELSE <<x>> \o sorted

\* list.sort(key=hits, reverse=True): stable, descending
RECURSIVE SortFrom(_, _)
SortFrom(ents, sorted) ==
    IF ents = <<>> THEN sorted
    ELSE SortFrom(Tail(ents), InsertByHits(Head(ents), sorted))

\* _sort_entities
SortEntities(ents) == SortFrom(ents, <<>>)

\* the orders in which a loop can go through a set
Orders(S) ==
    {o \in [1..Cardinality(S) -> S] : \A i, j \in DOMAIN o : i # j => o[i] # o[j]}

\* update_cache, "removed packs": del self._entities[del_index] for the first
\* item of the pack file
RECURSIVE RemoveFirst(_, _)
RemoveFirst(ents, p) ==
    IF ents = <<>> THEN <<>>
    ELSE IF Head(ents).entity = p THEN Tail(ents)
         ELSE <<Head(ents)>> \o RemoveFirst(Tail(ents), p)

\* an update_cache that deletes no item
RemoveNone(ents, gonePacks) == ents
\* update_cache, "removed packs": the loop over our_pack_files - pack_files
RECURSIVE RemoveAll(_, _)
RemoveAll(ents, gonePacks) ==
    IF gonePacks = {} THEN ents
    ELSE LET p == CHOOSE q \in gonePacks : TRUE
         IN RemoveAll(RemoveFirst(ents, p), gonePacks \ {p})

\* update_cache from the directory listing on: items appended for the new
\* pack files (in the order the set difference is gone through), the items of
\* vanished ones deleted, the list sorted
Reconcile(ents, pack_files, order) ==
    LET our_pack_files == EntitySet(ents)
        appended == ents \o [i \in DOMAIN order |->
                        [hits |-> PackSize(order[i]), entity |-> order[i]]]
    IN SortEntities(RemoveAll(appended, our_pack_files \ pack_files))

\* the registry a method finds when it reads self._entities: on first use
\* _set_cache_ builds it with update_cache(force=True) over an empty list
Entities(order) ==
    IF loaded THEN _entities ELSE Reconcile(<<>>, disk, order)
\* the orders the appends of a first use can take
LoadOrders == IF loaded THEN {<<>>} ELSE Orders(disk)
\* self._st_mtime once self._entities has been read
StMtime == IF loaded THEN _st_mtime ELSE dirMtime

\* ------------------------------------------------------------------------
\* PackedDB: the operations
\* ------------------------------------------------------------------------

\* a scan that goes on to the last item that holds sha
LastHit(ents, sha) ==
    LET hits == {i \in DOMAIN ents : sha_to_index(ents[i].entity, sha) # None}
    IN IF hits = {} THEN 0 ELSE CHOOSE i \in hits : \A j \in hits : i >= j
\* a scan that looks at the first item only
FirstHitHeadOnly(ents, sha) ==
    IF ents # <<>> /\ sha_to_index(ents[1].entity, sha) # None THEN 1 ELSE 0
\* _pack_info, the loop: the position of the first item, in list order,
\* whose index holds sha; 0 when the loop runs to its end
FirstHit(ents, sha) ==
    LET hits == {i \in DOMAIN ents : sha_to_index(ents[i].entity, sha) # None}
    IN IF hits = {} THEN 0 ELSE CHOOSE i \in hits : \A j \in hits : i <= j

\* _pack_info: "if self._hit_count % self._sort_interval == 0"
Presorts == _hit_count % SortInterval = 0

\* _pack_info(sha) on the registry ents0: the registry and the counter it
\* leaves, and Some(<<entity, index>>) or None for BadObject
PackInfo(ents0, sha) ==
    LET ents == IF Presorts THEN SortEntities(ents0) ELSE ents0
        k == FirstHit(ents, sha)
    IN \* the loop over self._entities
       IF k = 0
       THEN [entities |-> ents, hit_count |-> _hit_count, found |-> None]
       ELSE [entities |-> [ents EXCEPT ![k].hits = @ + 1],
             hit_count |-> _hit_count + 1,
             found |-> Some(<<ents[k].entity, Val(sha_to_index(ents[k].entity, sha))>>)]

\* what a lookup leaves of the state, r being what _pack_info came to
Looked(r) ==
    /\ _entities' = r.entities
    /\ _hit_count' = r.hit_count
    /\ loaded' = TRUE
    /\ _st_mtime' = StMtime
    /\ UNCHANGED <<disk, dirMtime>>

\* a has_object that lets BadObject through
HasObjectRaises(sha, found) ==
    IF found = None THEN Result("has_object", sha, None, "BadObject")
    ELSE Result("has_object", sha, Some(TRUE), "")
\* has_object: True when _pack_info returns, False when it raises BadObject
HasObjectResult(sha, found) == Result("has_object", sha, Some(found # None), "")

\* has_object(sha)
HasObject(sha) ==
    /\ _hit_count < MaxHits
    /\ \E order \in LoadOrders :
        \E r \in {PackInfo(Entities(order), sha)} :
           /\ Looked(r)
           /\ ret' = HasObjectResult(sha, r.found)

\* what info(sha) and stream(sha) come to: the object at the index found, of
\* the entity found, or BadObject
Delegated(op, sha, found) ==
    IF found = None
    THEN Result(op, sha, None, "BadObject")
    ELSE LET entity == Val(found)[1]
             index == Val(found)[2]
         IN Result(op, sha, Some(<<entity, IndexSha(entity, index)>>), "")

\* info(sha)
Info(sha) ==
    /\ _hit_count < MaxHits
    /\ \E order \in LoadOrders :
        \E r \in {PackInfo(Entities(order), sha)} :
           /\ Looked(r)
           /\ ret' = Delegated("info", sha, r.found)

\* stream(sha)
Stream(sha) ==
    /\ _hit_count < MaxHits
    /\ \E order \in LoadOrders :
        \E r \in {PackInfo(Entities(order), sha)} :
           /\ Looked(r)
           /\ ret' = Delegated("stream", sha, r.found)

\* an update_cache that takes the directory for changed whatever its mtime
ShortCircuitsNever(force) == FALSE
\* update_cache: "if not force and stat.st_mtime <= self._st_mtime: return False"
ShortCircuits(force) == ~force /\ dirMtime <= _st_mtime

\* update_cache(force)
UpdateCache(force) ==
    /\ UNCHANGED <<disk, dirMtime, _hit_count>>
    /\ IF ShortCircuits(force)
       THEN /\ ret' = Result("update_cache", force, Some(FALSE), "")
            /\ UNCHANGED <<loaded, _entities, _st_mtime>>
       ELSE \E first \in LoadOrders :
            \E ents \in {Entities(first)} :
            \E order \in Orders(disk \ EntitySet(ents)) :
                /\ _st_mtime' = dirMtime
                /\ loaded' = TRUE
                /\ _entities' = Reconcile(ents, disk, order)
                /\ ret' = Result("update_cache", force, Some(TRUE), "")

\* update_cache(force) that raises while it opens a new pack file: the mtime
\* is stored before the directory is listed; the first read of self._entities
\* sets the empty list before it is filled; the items of the pack files gone
\* through before the one that raises stay appended; nothing is deleted or
\* sorted
UpdateCacheFails(force) ==
    /\ ~ShortCircuits(force)
    /\ UNCHANGED <<disk, dirMtime, _hit_count>>
    /\ \E ents \in {IF loaded THEN _entities ELSE <<>>} :
       \E order \in Orders(disk \ EntitySet(ents)) :
       \E failing \in DOMAIN order :
            /\ _st_mtime' = dirMtime
            /\ loaded' = TRUE
            /\ _entities' = ents \o [i \in 1..(failing - 1) |->
                                [hits |-> PackSize(order[i]), entity |-> order[i]]]
            /\ ret' = Result("update_cache", force, None, "IOError")

\* partial_to_complete_sha, the loop from item i on with the candidate found
\* so far: the outcomes it can come to, each the candidate it ends with
\* (None or Some(sha)) or the error it raises.  The index of an entity answers
\* with the slot of a sha that has the prefix, or with None when it holds no
\* such sha.
RECURSIVE PartialScan(_, _, _, _, _)
PartialScan(ents, partial_binsha, canonical_length, i, candidate) ==
    IF i > Len(ents) THEN {[candidate |-> candidate, err |-> ""]}
    ELSE LET entity == ents[i].entity
             slots == PartialSlots(entity, partial_binsha, canonical_length)
         IN IF slots = {}
            THEN PartialScan(ents, partial_binsha, canonical_length, i + 1, candidate)
            ELSE UNION {
                   LET sha == IndexSha(entity, item_index)
                   IN IF candidate # None /\ Val(candidate) # sha
                      THEN {[candidate |-> candidate, err |-> "AmbiguousObjectName"]}
                      ELSE PartialScan(ents, partial_binsha, canonical_length,
                                       i + 1, Some(sha))
                   : item_index \in slots}

\* partial_to_complete_sha(partial_binsha, canonical_length)
PartialToComplete(partial_binsha, canonical_length) ==
    /\ UNCHANGED <<disk, dirMtime, _hit_count>>
    /\ \E order \in LoadOrders :
       \E ents \in {Entities(order)} :
       \E s \in PartialScan(ents, partial_binsha, canonical_length, 1, None) :
        LET arg == <<partial_binsha, canonical_length>>
        IN /\ _entities' = ents
           /\ loaded' = TRUE
           /\ _st_mtime' = StMtime
           /\ ret' = IF s.err # "" THEN Result("partial_to_complete_sha", arg, None, s.err)
                     ELSE IF s.candidate # None
                     THEN Result("partial_to_complete_sha", arg, s.candidate, "")
                     ELSE Result("partial_to_complete_sha", arg, None, "BadObject")

\* a sha_iter that stops after the first entity
RECURSIVE ShaIterFirstOnly(_)
ShaIterFirstOnly(ents) ==
    IF ents = <<>> THEN <<>>
    ELSE [i \in 1..IndexSize(Head(ents).entity) |-> IndexSha(Head(ents).entity, i)]
\* sha_iter: for each entity of entities(), in the order of the list, the shas
\* of its index from slot 0 to size() - 1
RECURSIVE ShaIterOf(_)
ShaIterOf(ents) ==
    IF ents = <<>> THEN <<>>
    ELSE [i \in 1..IndexSize(Head(ents).entity) |-> IndexSha(Head(ents).entity, i)]
            \o ShaIterOf(Tail(ents))

\* size: the sum of idx.size() over entities()
RECURSIVE SizeOf(_)
SizeOf(ents) ==
    IF ents = <<>> THEN 0
    ELSE IndexSize(Head(ents).entity) + SizeOf(Tail(ents))

\* sha_iter(), run to its end
ShaIter ==
    /\ UNCHANGED <<disk, dirMtime, _hit_count>>
    /\ \E order \in LoadOrders :
       \E ents \in {Entities(order)} :
        /\ _entities' = ents
        /\ loaded' = TRUE
        /\ _st_mtime' = StMtime
        /\ ret' = Result("sha_iter", None, Some(ShaIterOf(ents)), "")

\* size()
Size ==
    /\ UNCHANGED <<disk, dirMtime, _hit_count>>
    /\ \E order \in LoadOrders :
       \E ents \in {Entities(order)} :
        /\ _entities' = ents
        /\ loaded' = TRUE
        /\ _st_mtime' = StMtime
        /\ ret' = Result("size", None, Some(SizeOf(ents)), "")

\* a store that takes the object
StoreAccepts(istream) == Result("store", istream, Some(istream), "")
\* store: "raise UnsupportedOperation()"
StoreResult(istream) == Result("store", istream, None, "UnsupportedOperation")

\* store(istream)
Store(istream) ==
    /\ ret' = StoreResult(istream)
    /\ UNCHANGED <<disk, dirMtime, loaded, _entities, _hit_count, _st_mtime>>

\* the modification time the directory gets from a change made now
NewMtimes == {dirMtime, IF dirMtime < MaxTime THEN dirMtime + 1 ELSE dirMtime}

\* a pack file appears in the root directory
AddPack(p) ==
    /\ p \notin disk
    /\ disk' = disk \cup {p}
    /\ dirMtime' \in NewMtimes
    /\ UNCHANGED <<loaded, _entities, _hit_count, _st_mtime, ret>>

\* a pack file is removed from the root directory
RemovePack(p) ==
    /\ p \in disk
    /\ disk' = disk \ {p}
    /\ dirMtime' \in NewMtimes
    /\ UNCHANGED <<loaded, _entities, _hit_count, _st_mtime, ret>>

\* ------------------------------------------------------------------------
\* PackedDB used by several threads: _pack_info and update_cache step by step
\* ------------------------------------------------------------------------

\* number of threads that look shas up in the one database
NumThreads == 2

\* the threads that call has_object
Threads == 1..NumThreads

VARIABLES
    tpc,        \* thread -> where it is in _pack_info
    tsha,       \* thread -> the sha it looks up
    ti,         \* thread -> the position of the list iterator of its scan
    titem,      \* thread -> Some(the entity of the item its scan stopped at), or None
    treg,       \* thread -> the value it loaded for the += it is in
    tret,       \* thread -> what has_object returned: None before, Some(TRUE/FALSE)
    tstable,    \* thread -> the entities registered all through its lookup
    upc,        \* where the thread that refreshes is in update_cache
    unew,       \* update_cache: the new pack files still to append
    ugone       \* update_cache: the vanished pack files still to delete

threadVars == <<tpc, tsha, ti, titem, treg, tret, tstable, upc, unew, ugone>>

\* no thread is in a call
ThreadsInit ==
    /\ tpc = [th \in Threads |-> "idle"]
    /\ tsha = [th \in Threads |-> <<>>]
    /\ ti = [th \in Threads |-> 0]
    /\ titem = [th \in Threads |-> None]
    /\ treg = [th \in Threads |-> 0]
    /\ tret = [th \in Threads |-> None]
    /\ tstable = [th \in Threads |-> {}]
    /\ upc = "idle"
    /\ unew = <<>>
    /\ ugone = {}

\* the position in ents of the item of entity p; 0 when the item is not in
\* the list (any more)
ItemAt(ents, p) ==
    IF \E k \in DOMAIN ents : ents[k].entity = p
    THEN CHOOSE k \in DOMAIN ents : ents[k].entity = p
    ELSE 0

\* has_object(sha) entered by thread th: _pack_info up to the loop, with the
\* sort when the counter is at a multiple of the interval
TBegin(th, sha) ==
    /\ tpc[th] = "idle" /\ loaded /\ _hit_count < MaxHits
    /\ _entities' = IF Presorts THEN SortEntities(_entities) ELSE _entities
    /\ tpc' = [tpc EXCEPT ![th] = "scan"]
    /\ tsha' = [tsha EXCEPT ![th] = sha]
    /\ ti' = [ti EXCEPT ![th] = 1]
    /\ titem' = [titem EXCEPT ![th] = None]
    /\ tret' = [tret EXCEPT ![th] = None]
    /\ tstable' = [tstable EXCEPT ![th] = EntitySet(_entities)]
    /\ UNCHANGED <<disk, dirMtime, loaded, _hit_count, _st_mtime, ret, treg,
                   upc, unew, ugone>>

\* _pack_info, one turn of "for item in self._entities": the list iterator
\* hands out the item at its position, or ends the loop when the position is
\* past the end of the list as it is now
TScan(th) ==
    /\ tpc[th] = "scan"
    /\ UNCHANGED <<packVars, tsha, treg, tstable, upc, unew, ugone>>
    /\ IF ti[th] > Len(_entities)
       THEN \* raise BadObject(sha); has_object returns False
            /\ tret' = [tret EXCEPT ![th] = Some(FALSE)]
            /\ tpc' = [tpc EXCEPT ![th] = "idle"]
            /\ UNCHANGED <<ti, titem>>
       ELSE /\ ti' = [ti EXCEPT ![th] = @ + 1]
            /\ UNCHANGED tret
            /\ IF sha_to_index(_entities[ti[th]].entity, tsha[th]) # None
               THEN /\ titem' = [titem EXCEPT ![th] = Some(_entities[ti[th]].entity)]
                    /\ tpc' = [tpc EXCEPT ![th] = "load_hits"]
               ELSE UNCHANGED <<titem, tpc>>

\* "item[0] += 1", the load
THitsLoad(th) ==
    /\ tpc[th] = "load_hits"
    /\ treg' = [treg EXCEPT ![th] =
         IF titem[th] # None /\ ItemAt(_entities, Val(titem[th])) # 0
         THEN _entities[ItemAt(_entities, Val(titem[th]))].hits ELSE 0]
    /\ tpc' = [tpc EXCEPT ![th] = "store_hits"]
    /\ UNCHANGED <<packVars, tsha, ti, titem, tret, tstable, upc, unew, ugone>>

\* "item[0] += 1", the store; an item deleted from the list meanwhile is
\* written to all the same, which the list does not show
THitsStore(th) ==
    /\ tpc[th] = "store_hits"
    /\ _entities' =
         IF titem[th] # None /\ ItemAt(_entities, Val(titem[th])) # 0
         THEN [_entities EXCEPT ![ItemAt(_entities, Val(titem[th]))].hits = treg[th] + 1]
         ELSE _entities
    /\ tpc' = [tpc EXCEPT ![th] = "load_count"]
    /\ UNCHANGED <<disk, dirMtime, loaded, _hit_count, _st_mtime, ret,
                   tsha, ti, titem, treg, tret, tstable, upc, unew, ugone>>

\* "self._hit_count += 1", the load
TCountLoad(th) ==
    /\ tpc[th] = "load_count"
    /\ treg' = [treg EXCEPT ![th] = _hit_count]
    /\ tpc' = [tpc EXCEPT ![th] = "store_count"]
    /\ UNCHANGED <<packVars, tsha, ti, titem, tret, tstable, upc, unew, ugone>>

\* "self._hit_count += 1", the store; _pack_info returns, has_object returns
\* True
TCountStore(th) ==
    /\ tpc[th] = "store_count"
    /\ _hit_count' = treg[th] + 1
    /\ tret' = [tret EXCEPT ![th] = Some(TRUE)]
    /\ tpc' = [tpc EXCEPT ![th] = "idle"]
    /\ UNCHANGED <<disk, dirMtime, loaded, _entities, _st_mtime, ret,
                   tsha, ti, titem, treg, tstable, upc, unew, ugone>>

\* update_cache(force) entered by the refreshing thread, past the check of
\* the mtime: the directory is listed and the two set differences computed
URefresh(force) ==
    /\ upc = "idle" /\ loaded /\ ~ShortCircuits(force)
    /\ _st_mtime' = dirMtime
    /\ unew' \in Orders(disk \ EntitySet(_entities))
    /\ ugone' = EntitySet(_entities) \ disk
    /\ upc' = "append"
    /\ UNCHANGED <<disk, dirMtime, loaded, _entities, _hit_count, ret,
                   tpc, tsha, ti, titem, treg, tret, tstable>>

\* update_cache, "new packs": one self._entities.append, or the end of the loop
UAppend ==
    /\ upc = "append"
    /\ IF unew = <<>>
       THEN upc' = "remove" /\ UNCHANGED <<_entities, unew>>
       ELSE /\ _entities' = Append(_entities,
                    [hits |-> PackSize(Head(unew)), entity |-> Head(unew)])
            /\ unew' = Tail(unew)
            /\ UNCHANGED upc
    /\ UNCHANGED <<disk, dirMtime, loaded, _hit_count, _st_mtime, ret,
                   tpc, tsha, ti, titem, treg, tret, tstable, ugone>>

\* update_cache, "removed packs": one del self._entities[del_index], or the
\* end of the loop
URemove ==
    /\ upc = "remove"
    /\ IF ugone = {}
       THEN upc' = "sort" /\ UNCHANGED <<_entities, ugone, titem, tstable>>
       ELSE \E p \in ugone :
            /\ _entities' = RemoveFirst(_entities, p)
            /\ ugone' = ugone \ {p}
            /\ titem' = [th \in Threads |-> IF titem[th] = Some(p) THEN None ELSE titem[th]]
            /\ tstable' = [th \in Threads |-> tstable[th] \ {p}]
            /\ UNCHANGED upc
    /\ UNCHANGED <<disk, dirMtime, loaded, _hit_count, _st_mtime, ret,
                   tpc, tsha, ti, treg, tret, unew>>

\* update_cache: self._sort_entities(), return True
USort ==
    /\ upc = "sort"
    /\ _entities' = SortEntities(_entities)
    /\ upc' = "idle"
    /\ UNCHANGED <<disk, dirMtime, loaded, _hit_count, _st_mtime, ret,
                   tpc, tsha, ti, titem, treg, tret, tstable, unew, ugone>>

\* ------------------------------------------------------------------------
\* Specifications
\* ------------------------------------------------------------------------

vars == <<lockVars, packVars, obsVars, threadVars>>

\* no call on the database has been observed
ObsInit == queries = 0 /\ refreshes = 0 /\ touched = FALSE

\* LockedFD instances racing on one path; the pack database is not used
LockInit ==
    /\ DiskInit /\ LockedFDInit
    /\ PackedDBInit /\ disk = {}
    /\ ObsInit /\ ThreadsInit

LockNext ==
    \/ \E t \in Tx, w \in BOOLEAN : Open(t, w) /\ UNCHANGED <<packVars, obsVars, threadVars>>
    \/ \E t \in Tx : OpenTarget(t) /\ UNCHANGED <<packVars, obsVars, threadVars>>
    \/ \E t \in Tx : OpenUnlock(t) /\ UNCHANGED <<packVars, obsVars, threadVars>>
    \/ \E t \in Tx : WriteFd(t, ByteOf(t)) /\ UNCHANGED <<packVars, obsVars, threadVars>>
    \/ \E t \in Tx : Commit(t) /\ UNCHANGED <<packVars, obsVars, threadVars>>
    \/ \E t \in Tx : Rollback(t) /\ UNCHANGED <<packVars, obsVars, threadVars>>
    \/ \E t \in Tx : EndRemoveDst(t) /\ UNCHANGED <<packVars, obsVars, threadVars>>
    \/ \E t \in Tx : EndRename(t) /\ UNCHANGED <<packVars, obsVars, threadVars>>
    \/ \E t \in Tx : EndChmod(t) /\ UNCHANGED <<packVars, obsVars, threadVars>>
    \/ \E t \in Tx : EndUnlock(t) /\ UNCHANGED <<packVars, obsVars, threadVars>>
    \/ \E t \in Tx : Del(t) /\ UNCHANGED <<packVars, obsVars, threadVars>>

SpecLock == LockInit /\ [][LockNext]_vars

\* some method that has been entered runs on, or some instance still in use
\* is dropped, as long as there is one
LockFair ==
    WF_vars(\E t \in Tx :
        /\ \/ OpenTarget(t) \/ OpenUnlock(t) \/ EndRemoveDst(t) \/ EndRename(t)
           \/ EndChmod(t) \/ EndUnlock(t) \/ Del(t)
        /\ UNCHANGED <<packVars, obsVars, threadVars>>)

SpecLockFair == SpecLock /\ LockFair

\* one PackedDB over a root directory that changes; no transaction is made
PackInit ==
    /\ PackedDBInit
    /\ LockedFDInit /\ DiskInit /\ ~is_win /\ target = NoFile
    /\ ObsInit /\ ThreadsInit

PackNext ==
    \/ \E sha \in Digests : HasObject(sha) /\ UNCHANGED <<lockVars, obsVars, threadVars>>
    \/ \E sha \in Digests : Info(sha) /\ UNCHANGED <<lockVars, obsVars, threadVars>>
    \/ \E sha \in Digests : Stream(sha) /\ UNCHANGED <<lockVars, obsVars, threadVars>>
    \/ \E force \in BOOLEAN : UpdateCache(force) /\ UNCHANGED <<lockVars, obsVars, threadVars>>
    \/ \E a \in PartialInputs : PartialToComplete(a[1], a[2]) /\ UNCHANGED <<lockVars, obsVars, threadVars>>
    \/ \E p \in Packs : AddPack(p) /\ UNCHANGED <<lockVars, obsVars, threadVars>>
    \/ \E p \in Packs : RemovePack(p) /\ UNCHANGED <<lockVars, obsVars, threadVars>>

SpecPack == PackInit /\ [][PackNext]_vars

\* one PackedDB that is iterated over, measured and stored into, over a root
\* directory that changes, with lookups and refreshes in between
IterNext ==
    \/ ShaIter /\ UNCHANGED <<lockVars, obsVars, threadVars>>
    \/ Size /\ UNCHANGED <<lockVars, obsVars, threadVars>>
    \/ \E istream \in Digests : Store(istream) /\ UNCHANGED <<lockVars, obsVars, threadVars>>
    \/ \E sha \in Digests : HasObject(sha) /\ UNCHANGED <<lockVars, obsVars, threadVars>>
    \/ \E force \in BOOLEAN : UpdateCache(force) /\ UNCHANGED <<lockVars, obsVars, threadVars>>
    \/ \E p \in Packs : AddPack(p) /\ UNCHANGED <<lockVars, obsVars, threadVars>>
    \/ \E p \in Packs : RemovePack(p) /\ UNCHANGED <<lockVars, obsVars, threadVars>>

SpecIter == PackInit /\ [][IterNext]_vars

\* the resolution made by a call is counted
Counted ==
    /\ queries' = (queries + 1) % SortInterval
    /\ UNCHANGED <<refreshes, touched>>

\* the update_cache call is counted; the directory is as the call saw it
Refreshed ==
    /\ refreshes' = (refreshes + 1) % 2
    /\ touched' = FALSE
    /\ UNCHANGED queries

\* the directory is not as the last update_cache call saw it
Touched ==
    /\ touched' = TRUE
    /\ UNCHANGED <<queries, refreshes>>

\* one PackedDB whose update_cache calls are counted, over a root directory
\* that changes, with lookups in between
RefreshesNext ==
    \/ \E sha \in Digests : HasObject(sha) /\ UNCHANGED <<lockVars, obsVars, threadVars>>
    \/ \E force \in BOOLEAN : UpdateCache(force) /\ Refreshed /\ UNCHANGED <<lockVars, threadVars>>
    \/ \E p \in Packs : AddPack(p) /\ Touched /\ UNCHANGED <<lockVars, threadVars>>
    \/ \E p \in Packs : RemovePack(p) /\ Touched /\ UNCHANGED <<lockVars, threadVars>>

SpecRefreshes == PackInit /\ [][RefreshesNext]_vars

\* one PackedDB whose update_cache calls are counted and can fail at a new
\* pack file, over a root directory that changes
FailingNext ==
    \/ \E force \in BOOLEAN : UpdateCache(force) /\ Refreshed /\ UNCHANGED <<lockVars, threadVars>>
    \/ \E force \in BOOLEAN : UpdateCacheFails(force) /\ Refreshed /\ UNCHANGED <<lockVars, threadVars>>
    \/ \E p \in Packs : AddPack(p) /\ Touched /\ UNCHANGED <<lockVars, threadVars>>
    \/ \E p \in Packs : RemovePack(p) /\ Touched /\ UNCHANGED <<lockVars, threadVars>>

SpecFailing == PackInit /\ [][FailingNext]_vars

\* one PackedDB whose resolutions are counted (those of info, which hands out
\* what _pack_info found), over a root directory that changes, with refreshes
\* in between
QueriesNext ==
    \/ \E sha \in Digests : Info(sha) /\ Counted /\ UNCHANGED <<lockVars, threadVars>>
    \/ \E force \in BOOLEAN : UpdateCache(force) /\ UNCHANGED <<lockVars, obsVars, threadVars>>
    \/ \E p \in Packs : AddPack(p) /\ UNCHANGED <<lockVars, obsVars, threadVars>>
    \/ \E p \in Packs : RemovePack(p) /\ UNCHANGED <<lockVars, obsVars, threadVars>>

SpecQueries == PackInit /\ [][QueriesNext]_vars

\* a database whose registry has been loaded, before any lookup
LoadedInit ==
    /\ LockedFDInit /\ DiskInit /\ ~is_win /\ target = NoFile
    /\ ObsInit /\ ThreadsInit
    /\ disk \in SUBSET Packs
    /\ dirMtime = 1
    /\ loaded = TRUE
    /\ _entities \in {Reconcile(<<>>, disk, order) : order \in Orders(disk)}
    /\ _hit_count = 0
    /\ _st_mtime = dirMtime
    /\ ret = Result("init", None, None, "")

\* several threads look shas up in one database whose registry is loaded; the
\* root directory does not change and nobody refreshes
LookupsNext ==
    \/ \E th \in Threads, sha \in Digests : TBegin(th, sha) /\ UNCHANGED <<lockVars, obsVars>>
    \/ \E th \in Threads : TScan(th) /\ UNCHANGED <<lockVars, obsVars>>
    \/ \E th \in Threads : THitsLoad(th) /\ UNCHANGED <<lockVars, obsVars>>
    \/ \E th \in Threads : THitsStore(th) /\ UNCHANGED <<lockVars, obsVars>>
    \/ \E th \in Threads : TCountLoad(th) /\ UNCHANGED <<lockVars, obsVars>>
    \/ \E th \in Threads : TCountStore(th) /\ UNCHANGED <<lockVars, obsVars>>

SpecLookups == LoadedInit /\ [][LookupsNext]_vars

\* one thread looks shas up while another refreshes the registry, over a root
\* directory that changes
RefreshNext ==
    \/ \E sha \in Digests : TBegin(1, sha) /\ UNCHANGED <<lockVars, obsVars>>
    \/ TScan(1) /\ UNCHANGED <<lockVars, obsVars>>
    \/ THitsLoad(1) /\ UNCHANGED <<lockVars, obsVars>>
    \/ THitsStore(1) /\ UNCHANGED <<lockVars, obsVars>>
    \/ TCountLoad(1) /\ UNCHANGED <<lockVars, obsVars>>
    \/ TCountStore(1) /\ UNCHANGED <<lockVars, obsVars>>
    \/ \E force \in BOOLEAN : URefresh(force) /\ UNCHANGED <<lockVars, obsVars>>
    \/ UAppend /\ UNCHANGED <<lockVars, obsVars>>
    \/ URemove /\ UNCHANGED <<lockVars, obsVars>>
    \/ USort /\ UNCHANGED <<lockVars, obsVars>>
    \/ \E p \in Packs : AddPack(p) /\ UNCHANGED <<lockVars, obsVars, threadVars>>
    \/ \E p \in Packs : RemovePack(p) /\ UNCHANGED <<lockVars, obsVars, threadVars>>

SpecRefresh == LoadedInit /\ [][RefreshNext]_vars

\* ------------------------------------------------------------------------
\* Properties of LockedFD
\* ------------------------------------------------------------------------

\* instance t has created the lock file and not yet removed or renamed it
Holds(t) ==
    \/ pc[t] \in {"open_target", "open_unlock", "end_remove_dst", "end_rename",
                  "end_unlock"}
    \/ pc[t] = "idle" /\ _fd[t] # None

\* the phase of the transaction of instance t; an open that has not returned
\* has not opened it yet
Phase(t) ==
    IF _write[t] = None \/ pc[t] \in {"open_target", "open_unlock"} THEN "Unopened"
    ELSE IF _fd[t] = None THEN "Closed"
    ELSE IF Val(_write[t]) THEN "OpenForWrite" ELSE "OpenForRead"

\* this step is a call of open on instance t
OpenCalled(t) ==
    pc[t] = "idle" /\ res'[t].call = "open" /\ res'[t] # res[t]

\* this step is a call of commit or rollback on instance t
EndCalled(t) ==
    pc[t] = "idle" /\ res'[t].call \in {"commit", "rollback"} /\ res'[t] # res[t]

\* commit is running on the write transaction t
InCommit(t) == res[t] = Outcome("commit", "running") /\ _write[t] = Some(TRUE)

\* rollback is running on the write transaction t, called or from __del__
InRollback(t) ==
    /\ res[t].call \in {"rollback", "__del__"} /\ res[t].out = "running"
    /\ _write[t] = Some(TRUE)

\* the files, and the attributes of instance t but for the outcome of its
\* last call, stay as they are
NothingDone(t) ==
    /\ UNCHANGED <<target, lock, data, mode>>
    /\ _fd'[t] = _fd[t] /\ _write'[t] = _write[t] /\ pc'[t] = pc[t]

\* C1: at most one instance holds the lock file at any instant, and it is the
\* file that instance created; a first open gets the lock exactly when the
\* lock file does not exist, and fails at once with IOError, without touching
\* the lock file, when it does.
C1_OneLockHolder ==
    /\ [](\A t1, t2 \in Tx : Holds(t1) /\ Holds(t2) => t1 = t2)
    /\ [](\A t \in Tx : Holds(t) => lock = Some(t))
    /\ [][\A t \in Tx : _write[t] = None /\ _write'[t] # None =>
            IF lock = NoFile
            THEN Holds(t)' /\ lock' = Some(t)
            ELSE /\ res'[t] = Outcome("open", "IOError")
                 /\ pc'[t] = "idle" /\ ~Holds(t)' /\ lock' = lock]_vars

\* two write-mode opens raced: one holds the lock, the other got IOError
C1_Witness ==
    \E t1, t2 \in Tx :
        /\ t1 # t2
        /\ Holds(t1) /\ _write[t1] = Some(TRUE) /\ lock = Some(t1)
        /\ _write[t2] = Some(TRUE) /\ res[t2] = Outcome("open", "IOError")

\* C2: a commit of a write transaction never removes the lock file; its rename
\* does not fail, and leaves the target with exactly the bytes written through
\* the transaction and no lock file.
C2_CommitPublishes ==
    [][\A t \in Tx : InCommit(t) =>
            /\ pc[t] # "end_unlock"
            /\ (pc[t] = "end_remove_dst" /\ pc'[t] # pc[t] => pc'[t] = "end_rename")
            /\ (pc[t] = "end_rename" /\ pc'[t] # pc[t] =>
                    /\ pc'[t] = "end_chmod"
                    /\ Content(target)' = Some(written[t])
                    /\ lock' = NoFile)]_vars

\* a commit has just renamed non-empty written content over a target that
\* existed when the transaction was opened
C2_Witness ==
    \E t \in Tx :
        /\ InCommit(t) /\ pc[t] = "end_chmod"
        /\ written[t] # <<>> /\ atOpen[t] # NoFile
        /\ Content(target) = Some(written[t]) /\ lock = NoFile

\* C3: a rollback of a write transaction only removes the lock file: when it
\* returns, the target is as it was when the transaction was opened (same
\* content, or still absent) and there is no lock file.
C3_RollbackRestores ==
    [][\A t \in Tx : InRollback(t) =>
            /\ pc[t] = "end_unlock"
            /\ (pc'[t] # pc[t] =>
                    /\ pc'[t] = "idle" /\ res'[t].out = "ok"
                    /\ Content(target)' = atOpen[t]
                    /\ lock' = NoFile)]_vars

\* a rollback is about to remove the lock file of a transaction that has
\* written, over a target that exists
C3_Witness ==
    \E t \in Tx :
        /\ InRollback(t) /\ res[t].call = "rollback"
        /\ written[t] # <<>> /\ target # NoFile /\ atOpen[t] = Content(target)

\* C4: when every instance is dropped in the end (and every method that was
\* entered runs on), an instance that holds the lock file comes to not holding
\* it, with no lock file on disk.
C4_LockReleased ==
    \A t \in Tx : Holds(t) ~> (~Holds(t) /\ lock = NoFile)

\* an instance was dropped while open: __del__ is rolling it back
C4_Witness ==
    \E t \in Tx : gone[t] /\ pc[t] = "end_unlock" /\ lock = Some(t)

\* C5: a call of open on an instance on which open was called before raises
\* AssertionError and does nothing; a closed transaction stays closed, an open
\* one stays as it is until it is closed.
C5_OpenOnce ==
    [][\A t \in Tx :
            /\ (OpenCalled(t) /\ _write[t] # None =>
                    res'[t].out = "AssertionError" /\ NothingDone(t))
            /\ (Phase(t) = "Closed" => Phase(t)' = "Closed")
            /\ (Phase(t) \in {"OpenForRead", "OpenForWrite"} =>
                    Phase(t)' \in {Phase(t), "Closed"})]_vars

\* an instance committed its content, and a further open on it was refused
C5_Witness ==
    \E t \in Tx :
        /\ res[t] = Outcome("open", "AssertionError")
        /\ _write[t] = Some(TRUE) /\ _fd[t] = None /\ target = Some(t)

\* C6: a commit or rollback on a transaction that is closed returns without
\* doing anything: the target, the lock file (whoever holds it now) and the
\* instance stay as they are.
C6_EndIdempotent ==
    [][\A t \in Tx :
            EndCalled(t) /\ _write[t] # None /\ _fd[t] = None =>
                res'[t].out = "ok" /\ NothingDone(t)]_vars

\* an instance committed its content, another instance then took the lock, and
\* a further rollback on the first returned
C6_Witness ==
    \E t, u \in Tx :
        /\ t # u
        /\ res[t] = Outcome("rollback", "ok") /\ _fd[t] = None /\ target = Some(t)
        /\ Holds(u) /\ lock = Some(u)

\* C7: at every step the target, once it exists, goes on existing, and its
\* content changes only to the whole content written through the transaction
\* whose commit renames it.
C7_AtomicReplace ==
    [][/\ target # NoFile => target' # NoFile
       /\ Content(target)' # Content(target) =>
            \E t \in Tx : pc[t] = "end_rename" /\ Content(target)' = Some(written[t])
      ]_vars

\* ------------------------------------------------------------------------
\* Properties of PackedDB
\* ------------------------------------------------------------------------

\* the registered entities whose index holds sha
Holders(sha) == {p \in EntitySet(_entities) : sha_to_index(p, sha) # None}

\* the last call was a lookup of a sha
IsLookup == ret.op \in {"has_object", "info", "stream"}

\* the shas of the registered entities that begin with the partial sha
Matching(partial_binsha, canonical_length) ==
    {sha \in UNION {{IndexSha(p, i) : i \in 1..IndexSize(p)} : p \in EntitySet(_entities)} :
        PrefixMatches(partial_binsha, canonical_length, sha)}

\* C8: a lookup of a sha that the index of a registered entity holds succeeds,
\* whatever the order and the hit counts of the registry: has_object returns
\* True, info and stream return the object with that sha of an entity whose
\* index holds it.
C8_PresentFound ==
    IsLookup /\ Holders(ret.arg) # {} =>
        /\ ret.err = ""
        /\ IF ret.op = "has_object" THEN ret.val = Some(TRUE)
           ELSE Val(ret.val)[1] \in Holders(ret.arg) /\ Val(ret.val)[2] = ret.arg

\* after hits and a re-sort that brought pack 1 to the front, info of the sha
\* both packs hold was answered by pack 1
C8_Witness ==
    /\ ret.op = "info" /\ ret.err = "" /\ ret.arg = <<0,1,0,0>>
    /\ Len(_entities) = 2 /\ _entities[1].entity = 1 /\ _entities[1].hits > PackSize(1) + 1
    /\ Val(ret.val)[1] = 1

\* C9: a lookup of a sha that no index of a registered entity holds: has_object
\* returns False and raises nothing, info and stream raise BadObject.
C9_AbsentNotFound ==
    IsLookup /\ Holders(ret.arg) = {} =>
        IF ret.op = "has_object" THEN ret.err = "" /\ ret.val = Some(FALSE)
        ELSE ret.err = "BadObject" /\ ret.val = None

\* has_object returned False over a registry of two entities
C9_Witness ==
    /\ ret.op = "has_object" /\ ret.val = Some(FALSE) /\ ret.err = ""
    /\ Len(_entities) = 2 /\ _hit_count > 0

\* C10: partial_to_complete_sha raises BadObject when no sha of the registered
\* entities begins with the partial sha, AmbiguousObjectName when two or more
\* distinct ones do, and returns the sha when exactly one does.
C10_PartialResolves ==
    ret.op = "partial_to_complete_sha" =>
        LET m == Matching(ret.arg[1], ret.arg[2])
        IN /\ m = {} => ret.err = "BadObject"
           /\ Cardinality(m) >= 2 => ret.err = "AmbiguousObjectName"
           /\ Cardinality(m) = 1 => ret.err = "" /\ ret.val = Some(CHOOSE sha \in m : TRUE)

\* the position of the first item of ents, in list order, whose index holds
\* sha; 0 when there is none
FirstHolder(ents, sha) ==
    LET at == {k \in DOMAIN ents : sha_to_index(ents[k].entity, sha) # None}
    IN IF at = {} THEN 0 ELSE CHOOSE k \in at : \A j \in at : k <= j

\* the hit counter of the item of entity p in ents
HitsOf(ents, p) == ents[ItemAt(ents, p)].hits

\* the hit counter the item of entity p has before a call: that of its item,
\* or the pack's size for an item the call is to make
PreHits(p) ==
    IF loaded /\ p \in EntitySet(_entities) THEN HitsOf(_entities, p) ELSE PackSize(p)

\* this step is an update_cache call
RefreshStep == refreshes' # refreshes

\* this step is a lookup, that is one resolution by _pack_info
LookupStep == queries' # queries

\* the number of shas held by the indexes of the registered entities
StoreSize ==
    Cardinality(UNION {{<<p, i>> : i \in 1..IndexSize(p)} : p \in EntitySet(_entities)})

\* C11: an update_cache(force=False) that follows an update_cache(force=False)
\* with no change of the root directory in between takes the return before
\* the directory listing, returns False, and leaves the registry (entities,
\* hit counts, order), the counter and the mtime seen last as they are.
C11_SecondRefreshNoop ==
    [][RefreshStep /\ ret'.arg = FALSE
         /\ ret.op = "update_cache" /\ ret.arg = FALSE /\ ~touched
       => /\ ShortCircuits(FALSE)
          /\ ret'.val = Some(FALSE)
          /\ UNCHANGED <<loaded, _entities, _hit_count, _st_mtime>>]_vars

\* a second update_cache(force=False) has returned False over a registry of
\* two entities that have been hit
C11_Witness ==
    /\ ret = Result("update_cache", FALSE, Some(FALSE), "")
    /\ refreshes = 0 /\ ~touched
    /\ Len(_entities) = 2 /\ _hit_count > 0

\* C12: update_cache returns True exactly when the set of registered pack
\* files after the call differs from the set before it.
C12_TrueIffChanged ==
    [][RefreshStep =>
         (ret'.val = Some(TRUE) <=> EntitySet(_entities') # EntitySet(_entities))]_vars

\* C13: an update_cache call that does not return at the check of the mtime
\* leaves one item for each pack file of the root directory, none for any
\* other, and no two for the same pack file.
C13_RegistryMatchesDisk ==
    [][RefreshStep /\ ~ShortCircuits(ret'.arg) =>
          /\ EntitySet(_entities') = disk'
          /\ Len(_entities') = Cardinality(disk')]_vars

\* a pack file vanished from a loaded registry of two, and the refresh on the
\* advanced mtime left the one item of the pack file that remains
C13_Witness ==
    /\ ret = Result("update_cache", FALSE, Some(TRUE), "")
    /\ ~touched /\ dirMtime = MaxTime
    /\ Len(_entities) = 1 /\ _entities[1].hits > PackSize(_entities[1].entity)
    /\ EntitySet(_entities) = disk

\* C14: whatever the interleaving of the lookups of several threads, a lookup
\* returns True exactly when the index of a registered entity holds the sha.
C14_LookupsCorrect ==
    \A th \in Threads :
        tret[th] # None => (Val(tret[th]) <=> Holders(tsha[th]) # {})

\* C15: a lookup that runs while the registry is refreshed finds every sha
\* held by an entity that is registered all through the lookup.
C15_StableFound ==
    \A th \in Threads :
        tret[th] = Some(FALSE) =>
            ~ \E p \in tstable[th] : sha_to_index(p, tsha[th]) # None

\* C16: sha_iter yields the shas of every index of the registered entities, as
\* many as size() returns, which is the number of slots of those indexes; each
\* sha yielded is one has_object returns True for and info succeeds on; over
\* an empty registry sha_iter yields nothing and size() is 0.
C16_IterMatchesSize ==
    /\ ret.op = "sha_iter" =>
         LET shas == Val(ret.val)
         IN /\ Len(shas) = SizeOf(_entities) /\ Len(shas) = StoreSize
            /\ \A p \in EntitySet(_entities) : \A i \in 1..IndexSize(p) :
                 \E k \in DOMAIN shas : shas[k] = IndexSha(p, i)
            /\ \A k \in DOMAIN shas :
                 LET found == PackInfo(_entities, shas[k]).found
                 IN /\ HasObjectResult(shas[k], found).val = Some(TRUE)
                    /\ Delegated("info", shas[k], found).err = ""
            /\ _entities = <<>> => shas = <<>>
    /\ ret.op = "size" =>
         /\ ret.val = Some(StoreSize)
         /\ _entities = <<>> => ret.val = Some(0)

\* sha_iter has yielded the five shas of the indexes of two packs
C16_Witness ==
    /\ ret.op = "sha_iter" /\ Len(_entities) = 2
    /\ Len(Val(ret.val)) = IndexSize(1) + IndexSize(2)

\* C17: store raises UnsupportedOperation whatever the object and the state,
\* and leaves the registry, the counters and the pack files as they are.
C17_StoreUnsupported ==
    /\ [](ret.op = "store" => ret.err = "UnsupportedOperation" /\ ret.val = None)
    /\ [][ret'.op = "store" /\ ret' # ret =>
            UNCHANGED <<disk, dirMtime, loaded, _entities, _hit_count, _st_mtime>>]_vars

\* store was refused on a database with two entities that have been hit
C17_Witness ==
    /\ ret.op = "store" /\ ret.err = "UnsupportedOperation"
    /\ Len(_entities) = 2 /\ _hit_count > 0

\* C18: an open for reading that got the lock fails when the target is absent,
\* and when it fails it removes the lock file and raises: on return there is
\* no lock file and the instance has no descriptor and does not hold the lock.
C18_FailedReadUnlocks ==
    /\ [][\A t \in Tx :
            /\ (pc[t] = "open_target" /\ pc'[t] # pc[t] /\ target = NoFile =>
                    pc'[t] = "open_unlock")
            /\ (pc[t] = "open_target" /\ pc'[t] = "idle" =>
                    _fd'[t] = target /\ target # NoFile)
            /\ (pc[t] = "open_unlock" /\ pc'[t] # pc[t] =>
                    /\ pc'[t] = "idle" /\ res'[t] = Outcome("open", "OSError")
                    /\ lock' = NoFile /\ _fd'[t] = None /\ ~Holds(t)')]_vars
    /\ [](\A t \in Tx : res[t] = Outcome("open", "OSError") =>
            _fd[t] = None /\ ~Holds(t) /\ lock # Some(t))

\* an open for reading failed on an absent target, and another instance has
\* opened the path since
C18_Witness ==
    \E t, u \in Tx :
        /\ t # u
        /\ res[t] = Outcome("open", "OSError") /\ _write[t] = Some(FALSE)
        /\ target = NoFile
        /\ res[u] = Outcome("open", "ok") /\ Holds(u) /\ lock = Some(u)

\* C19: a lookup that finds the sha adds one to the hit counter of the first
\* item, in the order the scan goes through, whose index holds it, and one to
\* _hit_count, and leaves the other hit counters alone; a lookup that does not
\* find it leaves every hit counter and _hit_count alone; no step lowers the
\* hit counter of an item that stays in the registry.
C19_FirstHitCounted ==
    /\ [][LookupStep =>
            LET k == FirstHolder(_entities', ret'.arg)
            IN /\ _hit_count' = _hit_count + (IF k = 0 THEN 0 ELSE 1)
               /\ \A j \in DOMAIN _entities' :
                    _entities'[j].hits =
                        PreHits(_entities'[j].entity) + (IF j = k THEN 1 ELSE 0)]_vars
    /\ [][\A p \in EntitySet(_entities) \cap EntitySet(_entities') :
            HitsOf(_entities', p) >= HitsOf(_entities, p)]_vars

\* the sha both packs hold was looked up and the hit went to the item in front
\* only
C19_Witness ==
    /\ ret.op = "info" /\ ret.arg = <<0,1,0,0>> /\ ret.err = ""
    /\ Len(_entities) = 2 /\ _hit_count = 1
    /\ _entities[1].hits = PackSize(_entities[1].entity) + 1
    /\ _entities[2].hits = PackSize(_entities[2].entity)

\* C20: a resolution sorts the registry before its scan exactly when the
\* number of resolutions made before it, found or not, is a multiple of the
\* sort interval.
C20_SortsEveryNth ==
    [][LookupStep => (Presorts <=> queries = 0)]_vars

\* ------------------------------------------------------------------------
\* Further properties of LockedFD
\* ------------------------------------------------------------------------

\* instance t has no descriptor and is in no call: its open failed, or its
\* transaction is closed
NoDescriptor(t) == _write[t] # None /\ _fd[t] = None /\ pc[t] = "idle"

\* this step is a call on instance t, or the drop of it
CallOn(t) == res'[t] # res[t] \/ gone'[t] # gone[t]

\* C21: while a transaction is open for writing, the target is as it was when
\* it was opened (same content, or still absent) and the bytes written are
\* the content of the lock file; a write changes the lock file only.
C21_WritesStayInLock ==
    /\ [](\A t \in Tx : Phase(t) = "OpenForWrite" =>
            /\ Content(target) = atOpen[t]
            /\ Content(lock) = Some(written[t]))
    /\ [][\A t \in Tx : written'[t] # written[t] /\ written'[t] # <<>> =>
            /\ Content(target)' = Content(target)
            /\ Content(lock)' = Some(written'[t])]_vars

\* a transaction open for writing has written, over a target that exists
C21_Witness ==
    \E t \in Tx :
        /\ Phase(t) = "OpenForWrite" /\ Len(written[t]) = MaxLen
        /\ atOpen[t] = Some(InitData) /\ Content(target) = Some(InitData)

\* C22: a first open, for reading or for writing, on an instance while another
\* instance is open for reading raises IOError and gets nothing; the close of
\* a transaction open for reading removes the lock file and leaves the target
\* alone, whether by commit, by rollback or by the drop of the instance.
C22_NoParallelRead ==
    /\ [][\A t, u \in Tx :
            t # u /\ Phase(t) = "OpenForRead" /\ _write[u] = None /\ _write'[u] # None =>
                /\ res'[u] = Outcome("open", "IOError")
                /\ _fd'[u] = None /\ pc'[u] = "idle" /\ lock' = lock]_vars
    /\ [][\A t \in Tx :
            _write[t] = Some(FALSE) /\ pc[t] = "idle" /\ _fd[t] # None /\ CallOn(t)
              /\ res'[t].call # "open" =>
                pc'[t] = "end_unlock"]_vars
    /\ [][\A t \in Tx :
            _write[t] = Some(FALSE) /\ pc[t] = "end_unlock" /\ pc'[t] # pc[t] =>
                lock' = NoFile /\ Content(target)' = Content(target)]_vars

\* an open for reading was refused while another instance is open for reading
C22_Witness ==
    \E t, u \in Tx :
        /\ t # u /\ Phase(t) = "OpenForRead" /\ lock = Some(t)
        /\ _write[u] = Some(FALSE) /\ res[u] = Outcome("open", "IOError")

\* C23: an instance whose open raised IOError has no descriptor, and every
\* later call on an instance without descriptor, and the drop of it, leaves
\* the lock file and the target as they are and the instance without
\* descriptor.
C23_FailedOpenHarmless ==
    /\ [](\A t \in Tx : res[t] = Outcome("open", "IOError") => NoDescriptor(t))
    /\ [][\A t \in Tx : NoDescriptor(t) /\ CallOn(t) =>
            /\ UNCHANGED <<target, lock, data, mode>>
            /\ _fd'[t] = None /\ pc'[t] = "idle"]_vars

\* an instance without descriptor was dropped while another holds the lock for
\* writing, and the holder's commit has renamed its content onto the target
C23_Witness ==
    \E t, u \in Tx :
        /\ t # u
        /\ gone[t] /\ res[t] = Outcome("__del__", "ok") /\ _write[t] = Some(TRUE)
        /\ _fd[t] = None
        /\ InCommit(u) /\ pc[u] = "end_chmod" /\ written[u] # <<>>
        /\ atOpen[u] = NoFile /\ Content(target) = Some(written[u])

\* ------------------------------------------------------------------------
\* update_cache that fails
\* ------------------------------------------------------------------------

\* C24: an update_cache call that raises leaves the stored mtime as it was,
\* and the next call, made without force on the directory as the failed call
\* saw it, does not return at the check of the mtime and leaves one item for
\* each pack file of the root directory.
C24_FailureNotRecorded ==
    /\ [][RefreshStep /\ ret'.err # "" => _st_mtime' = _st_mtime]_vars
    /\ [][RefreshStep /\ ret.op = "update_cache" /\ ret.err # "" /\ ~touched
            /\ ~ret'.arg /\ ret'.err = "" =>
               /\ ret'.val = Some(TRUE)
               /\ EntitySet(_entities') = disk']_vars

====
